---- MODULE Spec2Model ----
(***************************************************************************)
(* A model of hammer-tech (ucb-bar/plsi):                                  *)
(*   - HammerTechnology.extract_tarballs (hammer_tech.py), the tarball     *)
(*     cache: invocations of extract_tarballs running against one shared   *)
(*     cache directory, one step per file-system or subprocess call;       *)
(*   - LibraryFilterHolder (filters.py), the catalog of library filters,   *)
(*     applied to an ordered collection of library records.                *)
(***************************************************************************)
EXTENDS Naturals, Sequences, FiniteSets

\* ------------------------------------------------------------------ bounds
NumProcs == 2      \* invocations of extract_tarballs on one HammerTechnology
NumArchives == 2   \* entries of config.tarballs, each with its own target_path
MaxCalls == 2      \* extract_tarballs calls made in one behaviour

Procs == 1..NumProcs
Archives == 1..NumArchives

VARIABLES
  disk,       \* disk[a]: the state of target_path of archive a
  pc,         \* pc[p]: where invocation p stands in extract_tarballs
  idx,        \* idx[p]: the loop's position in self.config.tarballs
  log,        \* log[p]: the steps p's current call has performed
  disk0,      \* disk0[p]: the disk as it was when p's call began
  cachedir,   \* self._cachedir is set
  database,   \* self._database is set
  ncalls,     \* number of calls begun
  cur,        \* the latest completed call: its outcome and its steps
  failed      \* archives whose tar or chmod step failed and never completed since

VARIABLES
  libs,       \* the ordered collection of library records handed to a filter
  selName,    \* the LibraryFilterHolder property accessed
  extracted,  \* extracted[i]: what extraction_func returned for record i
  result,     \* the selection result
  error,      \* the exception the selection raised, "none" when it returned
  warnings    \* the warnings the access emitted

fvars == <<libs, selName, extracted, result, error, warnings>>

tvars == <<disk, pc, idx, log, disk0, cachedir, database, ncalls, cur, failed>>

NoDir == [dir |-> FALSE, content |-> "none", perms |-> FALSE]
NoCall == [outcome |-> "none", log |-> <<>>]

Step(a, op, res) == [a |-> a, op |-> op, res |-> res]

TarballInit ==
  /\ disk = [a \in Archives |-> NoDir]
  /\ pc = [p \in Procs |-> "idle"]
  /\ idx = [p \in Procs |-> 1]
  /\ log = [p \in Procs |-> <<>>]
  /\ disk0 = [p \in Procs |-> [a \in Archives |-> NoDir]]
  /\ cachedir = FALSE
  /\ database = FALSE
  /\ ncalls = 0
  /\ cur = NoCall
  /\ failed = {}

\* cache_dir.setter: self._cachedir = value (os.makedirs of the cache root).
cache_dir_setter ==
  /\ UNCHANGED fvars
  /\ ~cachedir
  /\ cachedir' = TRUE
  /\ UNCHANGED <<disk, pc, idx, log, disk0, database, ncalls, cur, failed>>

\* set_database: self._database = database.
set_database ==
  /\ UNCHANGED fvars
  /\ ~database
  /\ database' = TRUE
  /\ UNCHANGED <<disk, pc, idx, log, disk0, cachedir, ncalls, cur, failed>>

\* A call of extract_tarballs begins: the for loop starts at the first tarball.
extract_tarballs_call(p) ==
  /\ UNCHANGED fvars
  /\ pc[p] = "idle"
  /\ ncalls < MaxCalls
  /\ ncalls' = ncalls + 1
  /\ pc' = [pc EXCEPT ![p] = "loop"]
  /\ idx' = [idx EXCEPT ![p] = 1]
  /\ log' = [log EXCEPT ![p] = <<>>]
  /\ disk0' = [disk0 EXCEPT ![p] = disk]
  /\ UNCHANGED <<disk, cachedir, database, cur, failed>>

\* The call is over (returned or raised) with `l` the steps it performed: it
\* becomes the latest completed call, and its locals are gone.
Complete(p, outcome, l) ==
  /\ cur' = [outcome |-> outcome, log |-> l]
  /\ pc' = [pc EXCEPT ![p] = "idle"]
  /\ idx' = [idx EXCEPT ![p] = 1]
  /\ log' = [log EXCEPT ![p] = <<>>]
  /\ disk0' = [disk0 EXCEPT ![p] = [a \in Archives |-> NoDir]]

\* Line 111: os.path.isdir(target_path).
isdir_other_path(a) == FALSE

isdir(a) == disk[a].dir

\* The check and the creation in one step (an exclusive create).
isdir_check_and_create(p) ==
  /\ UNCHANGED fvars
  /\ pc[p] = "loop"
  /\ UNCHANGED <<cachedir, database, ncalls, failed>>
  /\ IF idx[p] > NumArchives
       THEN /\ UNCHANGED disk
            /\ Complete(p, "returned", log[p])
       ELSE IF ~cachedir \/ ~database
         THEN /\ UNCHANGED disk
              /\ Complete(p, "raised", Append(log[p], Step(idx[p], "resolve", "fail")))
         ELSE IF isdir(idx[p])
           THEN /\ log' = [log EXCEPT ![p] = Append(@, Step(idx[p], "skip", "ok"))]
                /\ idx' = [idx EXCEPT ![p] = @ + 1]
                /\ UNCHANGED <<disk, pc, disk0, cur>>
           ELSE /\ pc' = [pc EXCEPT ![p] = "makedirs"]
                /\ disk' = [disk EXCEPT ![idx[p]].dir = TRUE]
                /\ UNCHANGED <<idx, log, disk0, cur>>

\* Lines 107-113: the loop head. The tarballs are exhausted (the call returns),
\* or target_path and tarball_path are computed (cache_dir and get_setting raise
\* ValueError when unset) and os.path.isdir(target_path) is evaluated.
isdir_check(p) ==
  /\ UNCHANGED fvars
  /\ pc[p] = "loop"
  /\ UNCHANGED <<disk, cachedir, database, ncalls, failed>>
  /\ IF idx[p] > NumArchives
       THEN Complete(p, "returned", log[p])
       ELSE IF ~cachedir \/ ~database
         THEN Complete(p, "raised", Append(log[p], Step(idx[p], "resolve", "fail")))
         ELSE IF isdir(idx[p])
           THEN /\ log' = [log EXCEPT ![p] = Append(@, Step(idx[p], "skip", "ok"))]
                /\ idx' = [idx EXCEPT ![p] = @ + 1]
                /\ UNCHANGED <<pc, disk0, cur>>
           ELSE /\ pc' = [pc EXCEPT ![p] = "makedirs"]
                /\ UNCHANGED <<idx, log, disk0, cur>>

\* Line 116: os.makedirs(target_path, exist_ok=True).
makedirs(p) ==
  /\ UNCHANGED fvars
  /\ pc[p] = "makedirs"
  /\ disk' = [disk EXCEPT ![idx[p]].dir = TRUE]
  /\ log' = [log EXCEPT ![p] = Append(@, Step(idx[p], "makedirs", "ok"))]
  /\ pc' = [pc EXCEPT ![p] = "tar"]
  /\ UNCHANGED <<idx, disk0, cachedir, database, ncalls, cur, failed>>

\* Line 116 raising OSError (the directory cannot be created).
makedirs_fail(p) ==
  /\ UNCHANGED fvars
  /\ pc[p] = "makedirs"
  /\ ~disk[idx[p]].dir
  /\ UNCHANGED <<disk, cachedir, database, ncalls, failed>>
  /\ Complete(p, "raised", Append(log[p], Step(idx[p], "makedirs", "fail")))

\* Line 117: tar exits 0; the archive's files are in target_path with the
\* archive's own permission bits.
tar_ok(p) ==
  /\ UNCHANGED fvars
  /\ pc[p] = "tar"
  /\ disk' = [disk EXCEPT ![idx[p]].content = "full", ![idx[p]].perms = FALSE]
  /\ log' = [log EXCEPT ![p] = Append(@, Step(idx[p], "tar", "ok"))]
  /\ pc' = [pc EXCEPT ![p] = "chmod"]
  /\ UNCHANGED <<idx, disk0, cachedir, database, ncalls, cur, failed>>

\* tar's exit status ignored (subprocess.call for check_call).
tar_fail_goes_on(p) ==
  /\ UNCHANGED fvars
  /\ pc[p] = "tar"
  /\ \E c \in {disk[idx[p]].content, "partial"} :
       disk' = [disk EXCEPT ![idx[p]].content = c]
  /\ log' = [log EXCEPT ![p] = Append(@, Step(idx[p], "tar", "fail"))]
  /\ pc' = [pc EXCEPT ![p] = "chmod"]
  /\ failed' = failed \cup {idx[p]}
  /\ UNCHANGED <<idx, disk0, cachedir, database, ncalls, cur>>

\* Line 117: tar exits non-zero, check_call raises CalledProcessError. tar may
\* have written nothing or part of the archive.
tar_fail(p) ==
  /\ UNCHANGED fvars
  /\ pc[p] = "tar"
  /\ \E c \in {disk[idx[p]].content, "partial"} :
       disk' = [disk EXCEPT ![idx[p]].content = c]
  /\ failed' = failed \cup {idx[p]}
  /\ UNCHANGED <<cachedir, database, ncalls>>
  /\ Complete(p, "raised", Append(log[p], Step(idx[p], "tar", "fail")))

\* Line 118: chmod u+rwX -R exits 0; the loop goes on to the next tarball.
chmod_ok(p) ==
  /\ UNCHANGED fvars
  /\ pc[p] = "chmod"
  /\ disk' = [disk EXCEPT ![idx[p]].perms = TRUE]
  /\ log' = [log EXCEPT ![p] = Append(@, Step(idx[p], "chmod", "ok"))]
  /\ pc' = [pc EXCEPT ![p] = "loop"]
  /\ idx' = [idx EXCEPT ![p] = @ + 1]
  /\ failed' = IF disk[idx[p]].content = "full" THEN failed \ {idx[p]} ELSE failed
  /\ UNCHANGED <<disk0, cachedir, database, ncalls, cur>>

\* Line 118: chmod exits non-zero, check_call raises CalledProcessError.
chmod_fail(p) ==
  /\ UNCHANGED fvars
  /\ pc[p] = "chmod"
  /\ failed' = failed \cup {idx[p]}
  /\ UNCHANGED <<disk, cachedir, database, ncalls>>
  /\ Complete(p, "raised", Append(log[p], Step(idx[p], "chmod", "fail")))

\* Sequential use: a call begins only when no other call is running.
sequential_call(p) ==
  /\ \A q \in Procs : pc[q] = "idle"
  /\ extract_tarballs_call(p)

TarballStep(p) ==
  \/ isdir_check(p)
  \/ makedirs(p)
  \/ makedirs_fail(p)
  \/ tar_ok(p)
  \/ tar_fail(p)
  \/ chmod_ok(p)
  \/ chmod_fail(p)

\* ------------------------------------------------------- library filters
MaxLibs == 3       \* library records in one collection

\* Optional fields of a Library record: None, or a present value.
None == <<>>
Some(v) == <<v>>
Val(x) == x[1]

\* The path record i holds in field f, as its components.
Path(i, f) == <<i, f>>

\* os.path.dirname.
dirname(path) == SubSeq(path, 1, Len(path) - 1)

Returned(l) == [raised |-> "none", val |-> l]
Raised(e) == [raised |-> e, val |-> <<>>]

EmptyLibrary ==
  [ccs_library_file |-> None, nldm_library_file |-> None,
   ccs_liberty_file |-> None, nldm_liberty_file |-> None, ecsm_liberty_file |-> None,
   qrc_techfile |-> None, verilog_synth |-> None,
   lef_file |-> None, gds_file |-> None, spice_file |-> None,
   milkyway_lib_in_dir |-> None, milkyway_techfile |-> None,
   tluplus_files |-> None, provides |-> None]

\* create_nonempty_check(description): check_nonempty.
check_nonempty_len1(description, l) ==
  IF Len(l) <= 1 THEN Raised("ValueError: Must have at least one " \o description)
                 ELSE Returned(l)

check_nonempty(description, l) ==
  IF Len(l) = 0 THEN Raised("ValueError: Must have at least one " \o description)
                ELSE Returned(l)

\* timing_db_filter: extraction_func.
timing_db_extraction_nldm_first(lib) ==
  IF lib.nldm_library_file # None THEN Returned(<<Val(lib.nldm_library_file)>>)
  ELSE IF lib.ccs_library_file # None THEN Returned(<<Val(lib.ccs_library_file)>>)
  ELSE Returned(<<>>)

timing_db_extraction_func(lib) ==
  IF lib.ccs_library_file # None THEN Returned(<<Val(lib.ccs_library_file)>>)
  ELSE IF lib.nldm_library_file # None THEN Returned(<<Val(lib.nldm_library_file)>>)
  ELSE Returned(<<>>)

\* liberty_lib_filter (deprecated): extraction_func.
liberty_lib_extraction_nldm_first(lib) ==
  IF lib.nldm_liberty_file # None THEN Returned(<<Val(lib.nldm_liberty_file)>>)
  ELSE IF lib.ccs_liberty_file # None THEN Returned(<<Val(lib.ccs_liberty_file)>>)
  ELSE Returned(<<>>)

liberty_lib_extraction_func(lib) ==
  IF lib.ccs_liberty_file # None THEN Returned(<<Val(lib.ccs_liberty_file)>>)
  ELSE IF lib.nldm_liberty_file # None THEN Returned(<<Val(lib.nldm_liberty_file)>>)
  ELSE Returned(<<>>)

\* timing_lib_filter: extraction_func.
timing_lib_extraction_func(lib) ==
  IF lib.ccs_liberty_file # None THEN Returned(<<Val(lib.ccs_liberty_file)>>)
  ELSE IF lib.nldm_liberty_file # None THEN Returned(<<Val(lib.nldm_liberty_file)>>)
  ELSE Returned(<<>>)

\* timing_lib_with_ecsm_filter: extraction_func.
timing_lib_with_ecsm_extraction_ccs_first(lib) ==
  IF lib.ccs_liberty_file # None THEN Returned(<<Val(lib.ccs_liberty_file)>>)
  ELSE IF lib.ecsm_liberty_file # None THEN Returned(<<Val(lib.ecsm_liberty_file)>>)
  ELSE IF lib.nldm_liberty_file # None THEN Returned(<<Val(lib.nldm_liberty_file)>>)
  ELSE Returned(<<>>)

timing_lib_with_ecsm_extraction_func(lib) ==
  IF lib.ecsm_liberty_file # None THEN Returned(<<Val(lib.ecsm_liberty_file)>>)
  ELSE IF lib.ccs_liberty_file # None THEN Returned(<<Val(lib.ccs_liberty_file)>>)
  ELSE IF lib.nldm_liberty_file # None THEN Returned(<<Val(lib.nldm_liberty_file)>>)
  ELSE Returned(<<>>)

\* qrc_tech_filter: extraction_func.
qrc_tech_extraction_func(lib) ==
  IF lib.qrc_techfile # None THEN Returned(<<Val(lib.qrc_techfile)>>)
  ELSE Returned(<<>>)

\* verilog_synth_filter: extraction_func.
verilog_synth_extraction_func(lib) ==
  IF lib.verilog_synth # None THEN Returned(<<Val(lib.verilog_synth)>>)
  ELSE Returned(<<>>)

\* lef_filter: filter_func, extraction_func, sort_func.
lef_filter_func_always(lib) == TRUE

lef_filter_func(lib) == lib.lef_file # None

lef_extraction_func(lib) ==
  IF lib.lef_file # None THEN Returned(<<Val(lib.lef_file)>>)
  ELSE Raised("AssertionError")

lef_sort_func_first_only(lib) ==
  IF lib.provides # None /\ Len(Val(lib.provides)) > 0
       /\ Val(lib.provides)[1].lib_type # None
       /\ Val(Val(lib.provides)[1].lib_type) = "technology"
    THEN 0
    ELSE 100

lef_sort_func(lib) ==
  IF lib.provides # None
       /\ \E j \in 1..Len(Val(lib.provides)) :
            /\ Val(lib.provides)[j].lib_type # None
            /\ Val(Val(lib.provides)[j].lib_type) = "technology"
    THEN 0     \* put the technology LEF in front
    ELSE 100   \* put it behind

\* gds_filter: filter_func, extraction_func.
gds_filter_func(lib) == lib.gds_file # None

gds_extraction_func(lib) ==
  IF lib.gds_file # None THEN Returned(<<Val(lib.gds_file)>>)
  ELSE Raised("AssertionError")

\* spice_filter: filter_func, extraction_func.
spice_filter_func(lib) == lib.spice_file # None

spice_extraction_func(lib) ==
  IF lib.spice_file # None THEN Returned(<<Val(lib.spice_file)>>)
  ELSE Raised("AssertionError")

\* milkyway_lib_dir_filter: select_milkyway_lib.
select_milkyway_lib(lib) ==
  IF lib.milkyway_lib_in_dir # None
    THEN Returned(<<dirname(Val(lib.milkyway_lib_in_dir))>>)
    ELSE Returned(<<>>)

\* milkyway_techfile_filter: select_milkyway_tfs.
select_milkyway_tfs(lib) ==
  IF lib.milkyway_techfile # None THEN Returned(<<Val(lib.milkyway_techfile)>>)
  ELSE Returned(<<>>)

\* tlu_max_cap_filter: select_tlu_max_cap.
select_tlu_max_cap(lib) ==
  IF lib.tluplus_files # None /\ Val(lib.tluplus_files).max_cap # None
    THEN Returned(<<Val(Val(lib.tluplus_files).max_cap)>>)
    ELSE Returned(<<>>)

\* tlu_min_cap_filter: select_tlu_min_cap.
select_tlu_min_cap(lib) ==
  IF lib.tluplus_files # None /\ Val(lib.tluplus_files).min_cap # None
    THEN Returned(<<Val(Val(lib.tluplus_files).min_cap)>>)
    ELSE Returned(<<>>)

\* The properties of LibraryFilterHolder.
FilterNames ==
  {"timing_db_filter", "liberty_lib_filter", "timing_lib_filter",
   "timing_lib_with_ecsm_filter", "qrc_tech_filter", "verilog_synth_filter",
   "lef_filter", "gds_filter", "spice_filter", "milkyway_lib_dir_filter",
   "milkyway_techfile_filter", "tlu_max_cap_filter", "tlu_min_cap_filter"}

\* The extraction_func each property hands to LibraryFilter.new.
extraction_func(name, lib) ==
  CASE name = "timing_db_filter" -> timing_db_extraction_func(lib)
    [] name = "liberty_lib_filter" -> liberty_lib_extraction_func(lib)
    [] name = "timing_lib_filter" -> timing_lib_extraction_func(lib)
    [] name = "timing_lib_with_ecsm_filter" -> timing_lib_with_ecsm_extraction_func(lib)
    [] name = "qrc_tech_filter" -> qrc_tech_extraction_func(lib)
    [] name = "verilog_synth_filter" -> verilog_synth_extraction_func(lib)
    [] name = "lef_filter" -> lef_extraction_func(lib)
    [] name = "gds_filter" -> gds_extraction_func(lib)
    [] name = "spice_filter" -> spice_extraction_func(lib)
    [] name = "milkyway_lib_dir_filter" -> select_milkyway_lib(lib)
    [] name = "milkyway_techfile_filter" -> select_milkyway_tfs(lib)
    [] name = "tlu_max_cap_filter" -> select_tlu_max_cap(lib)
    [] name = "tlu_min_cap_filter" -> select_tlu_min_cap(lib)

\* The filter_func each property hands to LibraryFilter.new; a property that
\* hands none gets the default, which every record passes.
filter_func(name, lib) ==
  CASE name = "lef_filter" -> lef_filter_func(lib)
    [] name = "gds_filter" -> gds_filter_func(lib)
    [] name = "spice_filter" -> spice_filter_func(lib)
    [] OTHER -> TRUE

\* The sort_func: only lef_filter hands one; without one, source order is kept
\* (every record gets the same key).
sort_func(name, lib) ==
  CASE name = "lef_filter" -> lef_sort_func(lib)
    [] OTHER -> 0

\* The extra_post_filter_funcs: only milkyway_techfile_filter hands one.
post_filter(name, l) ==
  CASE name = "milkyway_techfile_filter" -> check_nonempty("Milkyway techfile", l)
    [] OTHER -> Returned(l)

\* The warnings a property access emits (warnings.warn in liberty_lib_filter).
access_warnings(name) ==
  IF name = "liberty_lib_filter"
    THEN <<"DeprecationWarning: Use timing_lib_filter instead">>
    ELSE <<>>

\* ---- the Selection Engine (LibraryFilter, applied to a collection)
RECURSIVE Flatten(_)
Flatten(ss) == IF ss = <<>> THEN <<>> ELSE Head(ss) \o Flatten(Tail(ss))

\* x goes behind every element whose key is not greater than its own.
RECURSIVE InsertByKey(_, _)
InsertByKey(x, sorted) ==
  IF sorted = <<>> THEN <<x>>
  ELSE IF Head(sorted).key <= x.key THEN <<Head(sorted)>> \o InsertByKey(x, Tail(sorted))
  ELSE <<x>> \o sorted

RECURSIVE StableSort(_)
StableSort(s) ==
  IF s = <<>> THEN <<>>
  ELSE InsertByKey(s[Len(s)], StableSort(SubSeq(s, 1, Len(s) - 1)))

\* Step 1: extraction_func on each record filter_func passes, in input order.
Extractions(name, ls) ==
  [i \in 1..Len(ls) |->
     IF filter_func(name, ls[i]) THEN extraction_func(name, ls[i]) ELSE Returned(<<>>)]

\* Steps 2-3: the non-empty extractions, each under its record's key, in key
\* order, ties in source order; then flattened.
Contributions(name, ls, ex) ==
  LET keyed == [i \in 1..Len(ls) |-> [key |-> sort_func(name, ls[i]), paths |-> ex[i].val]]
      kept == SelectSeq(keyed, LAMBDA c : c.paths # <<>>)
      ordered == StableSort(kept)
  IN  Flatten([i \in 1..Len(ordered) |-> ordered[i].paths])

\* select(descriptor, records): steps 1-5.
Select(name, ls) ==
  LET ex == Extractions(name, ls)
      bad == {i \in 1..Len(ls) : ex[i].raised # "none"}
  IN  IF bad # {}
        THEN [raised |-> ex[CHOOSE i \in bad : \A j \in bad : i <= j].raised,
              val |-> <<>>, extracted |-> <<>>]
        ELSE LET checked == post_filter(name, Contributions(name, ls, ex))
             IN  [raised |-> checked.raised, val |-> checked.val,
                  extracted |-> [i \in 1..Len(ls) |-> ex[i].val]]

\* ---- the collections a filter is applied to
LibTypes == {None, Some("technology"), Some("stdcell")}
ProvidesShapes ==
  {None, Some(<<>>)}
    \cup {Some(<<[lib_type |-> t]>>) : t \in LibTypes}
    \cup {Some(<<[lib_type |-> Some("stdcell")], [lib_type |-> Some("technology")]>>)}

\* The records of one technology vary in one group of fields (a group holds
\* the fields some filters read and fields they must ignore); its other fields
\* are None.
FieldGroups ==
  {{"ccs_library_file", "nldm_library_file", "ccs_liberty_file"},
   {"ccs_liberty_file", "nldm_liberty_file", "ecsm_liberty_file"},
   {"lef_file", "provides"},
   {"lef_file", "gds_file", "spice_file"},
   {"qrc_techfile", "verilog_synth"},
   {"milkyway_lib_in_dir", "milkyway_techfile"},
   {"tluplus_files"}}

\* What a record holds: which plain fields of its group are present, its
\* provides, and (None, or the sub-fields present in) its tluplus_files.
Shapes(g) ==
  {[present |-> ps, provides |-> pr, tluplus |-> tl] :
     ps \in SUBSET (g \ {"provides", "tluplus_files"}),
     pr \in IF "provides" \in g THEN ProvidesShapes ELSE {None},
     tl \in IF "tluplus_files" \in g
              THEN {None} \cup {Some(caps) : caps \in SUBSET {"max_cap", "min_cap"}}
              ELSE {None}}

\* The record at position i of a collection, of shape sh: every path it
\* holds names the record.
Library(i, sh) ==
  [f \in DOMAIN EmptyLibrary |->
     IF f = "provides" THEN sh.provides
     ELSE IF f = "tluplus_files"
       THEN IF sh.tluplus = None THEN None
            ELSE Some([c \in {"max_cap", "min_cap"} |->
                         IF c \in Val(sh.tluplus) THEN Some(Path(i, c)) ELSE None])
     ELSE IF f \in sh.present THEN Some(Path(i, f)) ELSE None]

\* libs is a collection of at most MaxLibs records varying in one group.
IsLibraryCollection(ls) ==
  \E g \in FieldGroups : \E n \in 0..MaxLibs : \E shs \in [1..n -> Shapes(g)] :
    ls = [i \in 1..n |-> Library(i, shs[i])]

\* A technology is loaded: its libraries are fixed, no filter applied yet.
FilterInit ==
  /\ IsLibraryCollection(libs)
  /\ selName = "none"
  /\ extracted = <<>>
  /\ result = <<>>
  /\ error = "none"
  /\ warnings = <<>>

\* No technology's libraries are looked at.
NoFilter ==
  /\ libs = <<>>
  /\ selName = "none"
  /\ extracted = <<>>
  /\ result = <<>>
  /\ error = "none"
  /\ warnings = <<>>

\* A tool reads a property of LibraryFilterHolder and applies the filter to
\* the technology's libraries (one selection per behaviour: a selection reads
\* nothing an earlier one wrote).
filter_for_libs(name) ==
  /\ selName = "none"
  /\ LET sel == Select(name, libs)
     IN  /\ selName' = name
         /\ extracted' = sel.extracted
         /\ result' = sel.val
         /\ error' = sel.raised
         /\ warnings' = access_warnings(name)
  /\ UNCHANGED libs
  /\ UNCHANGED tvars

\* -------------------------------------------------------- specifications
vars == <<tvars, fvars>>

Init == TarballInit /\ NoFilter

InitFilter == TarballInit /\ FilterInit

Configure == cache_dir_setter \/ set_database

Next == Configure \/ \E p \in Procs : extract_tarballs_call(p) \/ TarballStep(p)

NextSeq == Configure \/ \E p \in Procs : sequential_call(p) \/ TarballStep(p)

NextFilter == \E name \in FilterNames : filter_for_libs(name)

\* Concurrent invocations of extract_tarballs.
Spec == Init /\ [][Next]_vars

\* Sequential invocations of extract_tarballs.
SpecSeq == Init /\ [][NextSeq]_vars

\* Selections through the catalog's filters.
SpecFilter == InitFilter /\ [][NextFilter]_vars

\* ----------------------------------------------------------------- claims
NoExtractionSteps(l) == \A i \in 1..Len(l) : l[i].op \notin {"makedirs", "tar", "chmod"}

TarCount(l, a) == Cardinality({i \in 1..Len(l) : l[i].op = "tar" /\ l[i].a = a})

\* C1: in sequential use, the call that follows a call that returned never
\* leaves the loop head: it performs no makedirs, tar or chmod step and the
\* disk stays as the call found it, so tar runs at most once per archive over
\* the two calls.
C1_SecondCallIsNoOp ==
  \A p \in Procs : (cur.outcome = "returned" /\ pc[p] # "idle") =>
    /\ pc[p] = "loop"
    /\ NoExtractionSteps(log[p])
    /\ disk = disk0[p]
    /\ \A a \in Archives : TarCount(cur.log, a) + TarCount(log[p], a) <= 1

C1_Witness ==
  /\ cur.outcome = "returned"
  /\ \A a \in Archives : TarCount(cur.log, a) = 1
  /\ \E p \in Procs :
       /\ pc[p] = "loop" /\ idx[p] = NumArchives + 1
       /\ Len(log[p]) = NumArchives
       /\ \A i \in 1..Len(log[p]) : log[p][i].op = "skip"

\* C2: an archive whose tar or chmod step failed is not skipped as already
\* extracted by a later call.
C2_FailedArchiveNotSkipped ==
  \A p \in Procs : \A i \in 1..Len(log[p]) :
    log[p][i].op = "skip" => log[p][i].a \notin failed

\* C8: the check that finds the directory missing creates nothing: the
\* creation is a later step of its own, so steps of other invocations come
\* between the two.
C8_CheckThenCreateNotAtomic ==
  [][\A p \in Procs : (pc[p] = "loop" /\ pc'[p] = "makedirs") => disk' = disk]_vars

\* Both races in one state: two invocations have each run tar on archive a in
\* their current calls, and an invocation has skipped archive b, which another
\* has created and not yet extracted.
C8_Witness ==
  \E p, q \in Procs : \E a, b \in Archives :
    /\ p # q
    /\ TarCount(log[p], a) = 1 /\ TarCount(log[q], a) = 1
    /\ pc[q] = "tar" /\ idx[q] = b /\ disk[b].content = "none"
    /\ Len(log[p]) > 0 /\ log[p][Len(log[p])] = Step(b, "skip", "ok")

\* C10: within a call the steps of an archive come in the order makedirs, tar,
\* chmod, each after the one before succeeded; a failed step is the call's
\* last step, and archives are visited in the declared order.
WellOrdered(l) ==
  \A i \in 1..Len(l) :
    /\ l[i].res = "fail" => i = Len(l)
    /\ l[i].op = "tar" => i > 1 /\ l[i - 1] = Step(l[i].a, "makedirs", "ok")
    /\ l[i].op = "chmod" => i > 1 /\ l[i - 1] = Step(l[i].a, "tar", "ok")
    /\ (i > 1 /\ l[i].op \in {"resolve", "skip", "makedirs"}) =>
         /\ l[i - 1].a < l[i].a
         /\ l[i - 1].op \in {"skip", "chmod"}

C10_StepOrder ==
  /\ \A p \in Procs :
       /\ WellOrdered(log[p])
       /\ \A i \in 1..Len(log[p]) : log[p][i].res = "ok"
       /\ pc[p] = "tar" => log[p][Len(log[p])] = Step(idx[p], "makedirs", "ok")
       /\ pc[p] = "chmod" => log[p][Len(log[p])] = Step(idx[p], "tar", "ok")
  /\ WellOrdered(cur.log)
  /\ cur.outcome = "raised" <=>
       (Len(cur.log) > 0 /\ cur.log[Len(cur.log)].res = "fail")

C10_Witness ==
  /\ cur.outcome = "raised"
  /\ cur.log = <<Step(1, "makedirs", "ok"), Step(1, "tar", "ok"), Step(1, "chmod", "fail")>>
  /\ \A p \in Procs : pc[p] = "idle"
  /\ \A a \in Archives \ {1} : disk[a] = NoDir

\* ---- claims about the filters
HasTechnology(lib) ==
  /\ lib.provides # None
  /\ \E j \in 1..Len(Val(lib.provides)) :
       Val(lib.provides)[j].lib_type = Some("technology")

PathsOf(ls, f) == [i \in 1..Len(ls) |-> Val(ls[i][f])]

\* C3: the LEF selection is the LEF paths of the records tagged technology,
\* in source order, then those of the other records that have one, in source
\* order.
C3_TechnologyLefFirst ==
  selName = "lef_filter" =>
    /\ error = "none"
    /\ result =
         PathsOf(SelectSeq(libs, LAMBDA l : l.lef_file # None /\ HasTechnology(l)), "lef_file")
           \o PathsOf(SelectSeq(libs, LAMBDA l : l.lef_file # None /\ ~HasTechnology(l)), "lef_file")

C3_Witness ==
  /\ selName = "lef_filter"
  /\ Len(libs) = 3
  /\ \A i \in 1..3 : libs[i].lef_file # None
  /\ ~HasTechnology(libs[1]) /\ HasTechnology(libs[2]) /\ ~HasTechnology(libs[3])
  /\ result = <<Path(2, "lef_file"), Path(1, "lef_file"), Path(3, "lef_file")>>

\* C4: with ECSM, each record yields its ECSM liberty file when it has one,
\* else its CCS one, else its NLDM one, else nothing.
C4_EcsmChain ==
  selName = "timing_lib_with_ecsm_filter" =>
    /\ error = "none"
    /\ Len(extracted) = Len(libs)
    /\ \A i \in 1..Len(libs) :
         extracted[i] =
           CASE libs[i].ecsm_liberty_file # None -> <<Val(libs[i].ecsm_liberty_file)>>
             [] libs[i].ecsm_liberty_file = None /\ libs[i].ccs_liberty_file # None ->
                  <<Val(libs[i].ccs_liberty_file)>>
             [] libs[i].ecsm_liberty_file = None /\ libs[i].ccs_liberty_file = None
                  /\ libs[i].nldm_liberty_file # None -> <<Val(libs[i].nldm_liberty_file)>>
             [] OTHER -> <<>>
    /\ result = Flatten(extracted)

C4_Witness ==
  /\ selName = "timing_lib_with_ecsm_filter"
  /\ Len(libs) = 3
  /\ libs[1].ecsm_liberty_file # None /\ libs[1].ccs_liberty_file # None
       /\ libs[1].nldm_liberty_file # None
  /\ libs[2].ecsm_liberty_file = None /\ libs[2].ccs_liberty_file # None
       /\ libs[2].nldm_liberty_file # None
  /\ libs[3].ecsm_liberty_file = None /\ libs[3].ccs_liberty_file = None
       /\ libs[3].nldm_liberty_file # None
  /\ result = <<Path(1, "ecsm_liberty_file"), Path(2, "ccs_liberty_file"),
                Path(3, "nldm_liberty_file")>>

Ccs(name, lib) ==
  IF name = "timing_db_filter" THEN lib.ccs_library_file ELSE lib.ccs_liberty_file

Nldm(name, lib) ==
  IF name = "timing_db_filter" THEN lib.nldm_library_file ELSE lib.nldm_liberty_file

\* C5: timing_db_filter and timing_lib_filter yield, per record, the NLDM file
\* when only it is set, the CCS file alone when both are set, and nothing when
\* neither is.
C5_CcsThenNldm ==
  selName \in {"timing_db_filter", "timing_lib_filter"} =>
    /\ error = "none"
    /\ Len(extracted) = Len(libs)
    /\ \A i \in 1..Len(libs) :
         LET ccs == Ccs(selName, libs[i])
             nldm == Nldm(selName, libs[i])
         IN  /\ (ccs = None /\ nldm # None) => extracted[i] = <<Val(nldm)>>
             /\ (ccs # None /\ nldm # None) => extracted[i] = <<Val(ccs)>>
             /\ (ccs = None /\ nldm = None) => extracted[i] = <<>>
    /\ result = Flatten(extracted)

C5_Witness ==
  /\ selName = "timing_db_filter"
  /\ Len(libs) = 3
  /\ libs[1].ccs_library_file = None /\ libs[1].nldm_library_file # None
  /\ libs[2].ccs_library_file # None /\ libs[2].nldm_library_file # None
  /\ libs[3].ccs_library_file = None /\ libs[3].nldm_library_file = None
  /\ result = <<Path(1, "nldm_library_file"), Path(2, "ccs_library_file")>>

C7_DeprecatedAliasSame ==
  selName = "liberty_lib_filter" =>
    /\ result = Select("timing_lib_filter", libs).val
    /\ error = Select("timing_lib_filter", libs).raised
    /\ error = "none"
    /\ warnings = <<"DeprecationWarning: Use timing_lib_filter instead">>

C7_Witness ==
  /\ selName = "liberty_lib_filter"
  /\ Len(libs) = 2
  /\ libs[1].ccs_liberty_file # None /\ libs[1].nldm_liberty_file # None
  /\ libs[2].ccs_liberty_file = None /\ libs[2].nldm_liberty_file # None
  /\ result = <<Path(1, "ccs_liberty_file"), Path(2, "nldm_liberty_file")>>
  /\ warnings # <<>>

\* C9: a selection through any filter but milkyway_techfile_filter raises
\* nothing, whatever the records.
C9_OnlyValidatorRaises ==
  selName \notin {"none", "milkyway_techfile_filter"} => error = "none"

C9_Witness ==
  /\ selName = "lef_filter"
  /\ Len(libs) = 3
  /\ libs[1].lef_file = None /\ libs[2].lef_file # None /\ libs[3].lef_file = None
  /\ error = "none"
  /\ result = <<Path(2, "lef_file")>>
====
